---- MODULE Spec2Model ----
(***************************************************************************)
(* The itertools notebook (src/itertools.ipynb).  Every code cell builds   *)
(* one iterator of Python's itertools module over literal inputs and then  *)
(* materialises it with list().  The model follows one such iterator       *)
(* object: its fields, the list iterators it reads from, and the elements  *)
(* its consumer has been handed.  One action is one __next__ call; the     *)
(* semantics of each call is that of the CPython iterator the cell imports.*)
(***************************************************************************)
EXTENDS Integers, Sequences, FiniteSets, TLC

VARIABLES
    obj,     \* the iterator object built by the cell (a record of its fields,
             \* ob_type naming its type)
    srcs,    \* the input iterables of the call, a sequence of sequences
    iters,   \* the list iterator over each input: [idx, calls]
    out,     \* what the consumer has been handed so far
    eos,     \* how often the consumer has been signalled StopIteration
    evals    \* source positions on which the caller's function was evaluated

vars == <<obj, srcs, iters, out, eos, evals>>

\* ------------------------------------------------------------------ bounds

MaxLen == 3      \* longest enumerated input (the notebook's literals are added)
MaxEos == 2      \* pulls the consumer still makes after a StopIteration

\* ----------------------------------------------------------------- helpers

SeqsUpTo(S, n) == UNION {[1..k -> S] : k \in 0..n}

Min(a, b) == IF a < b THEN a ELSE b

Max(a, b) == IF a > b THEN a ELSE b

Prefix(s, k) == SubSeq(s, 1, k)

IsPrefix(a, b) == Len(a) <= Len(b) /\ a = Prefix(b, Len(a))

\* iter(iterable): a fresh list iterator, index 0, never called
iter(n) == [i \in 1..n |-> [idx |-> 0, calls |-> 0]]

\* next(it) on the list iterator of input i: the item as a one-element
\* sequence, or <<>> for StopIteration; the index moves only on an item
next(its, i) ==
    LET it == its[i]
        s  == srcs[i]
    IN  IF it.idx < Len(s)
        THEN [item |-> <<s[it.idx + 1]>>,
              its  |-> [its EXCEPT ![i] = [idx |-> it.idx + 1, calls |-> it.calls + 1]]]
        ELSE [item |-> <<>>,
              its  |-> [its EXCEPT ![i] = [idx |-> it.idx, calls |-> it.calls + 1]]]

\* one __next__ call seen from the consumer: r is what the call computed
Deliver(r) ==
    /\ eos < MaxEos
    /\ obj' = r.obj
    /\ iters' = r.its
    /\ out' = out \o r.ret
    /\ eos' = IF r.ret = <<>> THEN eos + 1 ELSE eos
    /\ evals' = evals \o r.ev
    /\ UNCHANGED srcs

\* the notebook's lambda x: x<5
predicate(x) == x < 5

\* the values of the notebook's [1,4,6,4,1]
PredVals == {1, 4, 6}

PredExample == <<1, 4, 6, 4, 1>>

PredInputs == SeqsUpTo(PredVals, MaxLen) \cup {PredExample}

\* index of the first element failing the predicate, Len(s)+1 if none
RECURSIVE FirstFail(_, _)
FirstFail(s, i) ==
    IF i > Len(s) THEN i
    ELSE IF ~(s[i] < 5) THEN i
    ELSE FirstFail(s, i + 1)

\* --------------------------------------------------------------- takewhile

\* takewhile.__next__ without the stop flag: resumes after a failing element
takewhile_next_resumes(o, its) ==
    LET r == next(its, 1)
    IN  IF r.item = <<>>
        THEN [obj |-> o, its |-> r.its, ret |-> <<>>, ev |-> <<>>]
        ELSE [obj |-> o, its |-> r.its,
              ret |-> IF predicate(r.item[1]) THEN r.item ELSE <<>>,
              ev |-> <<r.its[1].idx>>]

\* takewhile.__next__
takewhile_next(o, its) ==
    IF o.stop = 1
    THEN [obj |-> o, its |-> its, ret |-> <<>>, ev |-> <<>>]
    ELSE LET r == next(its, 1)
         IN  IF r.item = <<>>
             THEN [obj |-> o, its |-> r.its, ret |-> <<>>, ev |-> <<>>]
             ELSE IF predicate(r.item[1])
             THEN [obj |-> o, its |-> r.its, ret |-> r.item,
                   ev |-> <<r.its[1].idx>>]
             ELSE [obj |-> [o EXCEPT !.stop = 1], its |-> r.its, ret |-> <<>>,
                   ev |-> <<r.its[1].idx>>]

\* filtered_values = takewhile(lambda x: x<5, [1,4,6,4,1])
InitTakewhile ==
    /\ srcs \in {<<s>> : s \in PredInputs}
    /\ obj = [ob_type |-> "takewhile", stop |-> 0]
    /\ iters = iter(1)
    /\ out = <<>>
    /\ eos = 0
    /\ evals = <<>>

\* list(filtered_values): one pull
TakewhileNext == Deliver(takewhile_next(obj, iters))

SpecTakewhile == InitTakewhile /\ [][TakewhileNext]_vars

\* C4: takewhile emits exactly the longest prefix whose elements all satisfy
\* the predicate; once the consumer has been signalled exhaustion nothing is
\* emitted any more, and no source element after the first failing one is
\* ever pulled.
C4_TakewhilePrefix ==
    LET s == srcs[1]
        k == FirstFail(s, 1)
    IN  /\ IsPrefix(out, Prefix(s, k - 1))
        /\ eos > 0 => out = Prefix(s, k - 1)
        /\ iters[1].idx <= Min(k, Len(s))

\* the notebook's cell: [1,4,6,4,1] has given [1,4], the consumer has pulled
\* again after the first StopIteration, and a later 4 and 1 were never read
C4_Witness ==
    /\ srcs = <<PredExample>>
    /\ out = <<1, 4>>
    /\ eos = 2
    /\ obj.stop = 1
    /\ iters[1].idx = 3

\* --------------------------------------------------------------- dropwhile

\* dropwhile.__next__ without the start flag: the predicate keeps filtering
RECURSIVE dropwhile_next_filters(_, _)
dropwhile_next_filters(o, its) ==
    LET r == next(its, 1)
    IN  IF r.item = <<>>
        THEN [obj |-> o, its |-> r.its, ret |-> <<>>, ev |-> <<>>]
        ELSE IF predicate(r.item[1])
        THEN LET d == dropwhile_next_filters(o, r.its)
             IN  [d EXCEPT !.ev = <<r.its[1].idx>> \o @]
        ELSE [obj |-> o, its |-> r.its, ret |-> r.item, ev |-> <<r.its[1].idx>>]

\* dropwhile.__next__: loops over the source until it has an item to return
RECURSIVE dropwhile_next(_, _)
dropwhile_next(o, its) ==
    LET r == next(its, 1)
    IN  IF r.item = <<>>
        THEN [obj |-> o, its |-> r.its, ret |-> <<>>, ev |-> <<>>]
        ELSE IF o.start = 1
        THEN [obj |-> o, its |-> r.its, ret |-> r.item, ev |-> <<>>]
        ELSE IF predicate(r.item[1])
        THEN LET d == dropwhile_next(o, r.its)
             IN  [d EXCEPT !.ev = <<r.its[1].idx>> \o @]
        ELSE [obj |-> [o EXCEPT !.start = 1], its |-> r.its, ret |-> r.item,
              ev |-> <<r.its[1].idx>>]

\* filtered_values = dropwhile(lambda x: x<5, [1,4,6,4,1])
InitDropwhile ==
    /\ srcs \in {<<s>> : s \in PredInputs}
    /\ obj = [ob_type |-> "dropwhile", start |-> 0]
    /\ iters = iter(1)
    /\ out = <<>>
    /\ eos = 0
    /\ evals = <<>>

\* list(filtered_values): one pull
DropwhileNext == Deliver(dropwhile_next(obj, iters))

SpecDropwhile == InitDropwhile /\ [][DropwhileNext]_vars

\* C5: dropwhile discards the longest prefix satisfying the predicate and
\* emits the first failing element and everything after it unchanged; the
\* predicate is evaluated once on each element up to and including the first
\* failing one, in order, and on no later element.
C5_DropwhileSuffix ==
    LET s == srcs[1]
        k == FirstFail(s, 1)
        n == iters[1].idx
    IN  /\ out = IF n < k THEN <<>> ELSE SubSeq(s, k, n)
        /\ eos > 0 => out = SubSeq(s, k, Len(s))
        /\ evals = [i \in 1..Min(n, k) |-> i]
        /\ obj.start = 1 <=> (n >= k /\ k <= Len(s))

\* the notebook's cell: [1,4,6,4,1] has given [6,4,1]; the later 4 and 1
\* satisfy the predicate and were passed through without evaluating it
C5_Witness ==
    /\ srcs = <<PredExample>>
    /\ out = <<6, 4, 1>>
    /\ eos > 0
    /\ obj.start = 1
    /\ evals = <<1, 2, 3>>

\* ------------------------------------------------------------------ islice

IsliceMaxLen == 4     \* longest enumerated source range(L)
IsliceMaxArg == 4     \* largest enumerated start and stop
IsliceMaxStep == 3    \* largest enumerated step

None == -1            \* stop=None, kept as -1 as the object keeps it

\* iterable = [0, 1, ..., 9]; islice(iterable, 1, 7, 2)
IsliceExample == [src |-> [i \in 1..10 |-> i - 1], start |-> 1, stop |-> 7, step |-> 2]

\* range(L) as a list
range(L) == [i \in 1..L |-> i - 1]

IsliceInputs ==
    {[src |-> range(L), start |-> a, stop |-> b, step |-> c] :
        L \in 0..IsliceMaxLen, a \in 0..IsliceMaxArg,
        b \in {None} \cup 0..IsliceMaxArg, c \in 1..IsliceMaxStep}
    \cup {IsliceExample}

\* the skipping loop of islice.__next__: while cnt < next, read and drop
RECURSIVE islice_skip(_, _)
islice_skip(o, its) ==
    IF o.cnt < o.next
    THEN LET r == next(its, 1)
         IN  IF r.item = <<>>
             THEN [obj |-> o, its |-> r.its, ok |-> FALSE]
             ELSE islice_skip([o EXCEPT !.cnt = @ + 1], r.its)
    ELSE [obj |-> o, its |-> its, ok |-> TRUE]

\* the result of islice.__next__ at "empty:": the source is released
islice_empty(o, its) ==
    [obj |-> [o EXCEPT !.it = 0], its |-> its, ret |-> <<>>, ev |-> <<>>]

\* islice.__next__ taking stop as an inclusive bound
islice_next_inclusive(o, its) ==
    IF o.it = 0
    THEN [obj |-> o, its |-> its, ret |-> <<>>, ev |-> <<>>]
    ELSE LET k == islice_skip(o, its)
         IN  IF ~k.ok THEN islice_empty(k.obj, k.its)
             ELSE IF o.stop # None /\ k.obj.cnt > o.stop THEN islice_empty(k.obj, k.its)
             ELSE LET r == next(k.its, 1)
                      nx == k.obj.next + o.step
                  IN  IF r.item = <<>> THEN islice_empty(k.obj, r.its)
                      ELSE [obj |-> [k.obj EXCEPT
                                        !.cnt = @ + 1,
                                        !.next = IF o.stop # None /\ nx > o.stop
                                                 THEN o.stop ELSE nx],
                            its |-> r.its, ret |-> r.item, ev |-> <<>>]

\* islice.__next__ (start, stop and step are far below PY_SSIZE_T_MAX, so
\* next + step does not wrap)
islice_next(o, its) ==
    IF o.it = 0
    THEN [obj |-> o, its |-> its, ret |-> <<>>, ev |-> <<>>]
    ELSE LET k == islice_skip(o, its)
         IN  IF ~k.ok THEN islice_empty(k.obj, k.its)
             ELSE IF o.stop # None /\ k.obj.cnt >= o.stop THEN islice_empty(k.obj, k.its)
             ELSE LET r == next(k.its, 1)
                      nx == k.obj.next + o.step
                  IN  IF r.item = <<>> THEN islice_empty(k.obj, r.its)
                      ELSE [obj |-> [k.obj EXCEPT
                                        !.cnt = @ + 1,
                                        !.next = IF o.stop # None /\ nx > o.stop
                                                 THEN o.stop ELSE nx],
                            its |-> r.its, ret |-> r.item, ev |-> <<>>]

\* sliced_iterator = islice(iterable, 1, 7, 2)
InitIslice ==
    \E a \in IsliceInputs :
        /\ srcs = <<a.src>>
        /\ obj = [ob_type |-> "islice",
                  it |-> 1, next |-> a.start, stop |-> a.stop, step |-> a.step,
                  cnt |-> 0, start |-> a.start]   \* start: the argument, kept for reference
        /\ iters = iter(1)
        /\ out = <<>>
        /\ eos = 0
        /\ evals = <<>>

\* list(sliced_iterator): one pull
IsliceNext == Deliver(islice_next(obj, iters))

SpecIslice == InitIslice /\ [][IsliceNext]_vars

\* the positions start, start+step, ... below stop and inside the source
RECURSIVE IslicePositions(_, _, _, _)
IslicePositions(n, p, stop, step) ==
    IF p >= n \/ (stop # None /\ p >= stop) THEN <<>>
    ELSE <<p>> \o IslicePositions(n, p + step, stop, step)

IsliceExpected ==
    LET ps == IslicePositions(Len(srcs[1]), obj.start, obj.stop, obj.step)
    IN  [j \in 1..Len(ps) |-> srcs[1][ps[j] + 1]]

\* the source elements that have to be read to skip start elements, to emit
\* IsliceExpected and to know that nothing follows: up to the last emitted
\* position when the next candidate is at or beyond stop, else all of them
IsliceNeeded ==
    LET ps == IslicePositions(Len(srcs[1]), obj.start, obj.stop, obj.step)
        cand == obj.start + Len(ps) * obj.step
    IN  IF obj.stop # None /\ cand >= obj.stop
        THEN (IF ps = <<>> THEN Min(Len(srcs[1]), obj.start) ELSE ps[Len(ps)] + 1)
        ELSE Len(srcs[1])

\* what islice reads when pulled to exhaustion
IsliceConsumed ==
    IF obj.stop = None THEN Len(srcs[1])
    ELSE Min(Len(srcs[1]), Max(obj.start, obj.stop))

\* C3 as stated: the elements at start, start+step, ... below stop, and no
\* more source elements read than emitting them requires.
C3_IsliceMinimalPulls ==
    /\ IsPrefix(out, IsliceExpected)
    /\ eos > 0 => out = IsliceExpected
    /\ iters[1].idx <= IsliceNeeded

\* C3 amended: islice emits exactly the elements at positions start,
\* start+step, ... below stop that exist, in order; it never reads the source
\* at or beyond position max(start, stop), and when pulled to exhaustion it has
\* read min(len, max(start, stop)) elements (all of them when stop is None).
C3_IsliceConsumesToStop ==
    /\ IsPrefix(out, IsliceExpected)
    /\ eos > 0 => out = IsliceExpected
    /\ iters[1].idx <= IsliceConsumed
    /\ eos > 0 => iters[1].idx = IsliceConsumed

\* the notebook's cell: islice(range(10), 1, 7, 2) has given [1, 3, 5] and
\* has read seven elements, position 6 included
C3_Witness ==
    /\ srcs = <<IsliceExample.src>>
    /\ obj.start = 1 /\ obj.stop = 7 /\ obj.step = 2
    /\ out = <<1, 3, 5>>
    /\ eos > 0
    /\ iters[1].idx = 7

\* ------------------------------------------------------------- zip_longest

ZipMaxSources == 3    \* most iterables passed to zip_longest

\* the letters the str inputs are cut from, by argument place
Letters(i) ==
    IF i % 2 = 1 THEN <<"A", "B", "C", "D", "E">> ELSE <<"x", "y", "z", "u", "v">>

fillvalue == "-"

\* zip_longest('ABCD', 'xy', fillvalue='-')
ZipExample == <<Prefix(Letters(1), 4), Prefix(Letters(2), 2)>>

ZipInputs ==
    UNION {{[i \in 1..n |-> Prefix(Letters(i), f[i])] : f \in [1..n -> 0..MaxLen]} :
              n \in 0..ZipMaxSources}
    \cup {ZipExample}

\* the loop of zip_longest.__next__ over the iterators, from iterator i on;
\* acc is the tuple built so far.  An exhausted iterator is dropped from
\* ittuple and its place filled; when the last active one ends, so does the call.
RECURSIVE zip_longest_fill(_, _, _, _)
zip_longest_fill(o, its, i, acc) ==
    IF i > Len(o.ittuple)
    THEN [obj |-> o, its |-> its, ret |-> <<acc>>, ev |-> <<>>]
    ELSE IF o.ittuple[i] = 0
    THEN zip_longest_fill(o, its, i + 1, Append(acc, fillvalue))
    ELSE LET r == next(its, i)
         IN  IF r.item # <<>>
             THEN zip_longest_fill(o, r.its, i + 1, acc \o r.item)
             ELSE IF o.numactive - 1 = 0
             THEN [obj |-> [o EXCEPT !.numactive = 0], its |-> r.its,
                   ret |-> <<>>, ev |-> <<>>]
             ELSE zip_longest_fill([o EXCEPT !.numactive = @ - 1, !.ittuple[i] = 0],
                                   r.its, i + 1, Append(acc, fillvalue))

\* zip_longest.__next__ ending like zip(): at the first exhausted iterator
zip_longest_next_shortest(o, its) ==
    LET ends == \E i \in 1..Len(o.ittuple) : its[i].idx >= Len(srcs[i])
    IN  IF Len(o.ittuple) = 0 \/ o.numactive = 0 \/ ends
        THEN [obj |-> [o EXCEPT !.numactive = 0], its |-> its, ret |-> <<>>, ev |-> <<>>]
        ELSE zip_longest_fill(o, its, 1, <<>>)

\* zip_longest.__next__
zip_longest_next(o, its) ==
    IF Len(o.ittuple) = 0 \/ o.numactive = 0
    THEN [obj |-> o, its |-> its, ret |-> <<>>, ev |-> <<>>]
    ELSE zip_longest_fill(o, its, 1, <<>>)

\* zipped = zip_longest('ABCD', 'xy', fillvalue='-')
InitZipLongest ==
    /\ srcs \in ZipInputs
    /\ obj = [ob_type |-> "zip_longest",
              ittuple |-> [i \in 1..Len(srcs) |-> 1], numactive |-> Len(srcs)]
    /\ iters = iter(Len(srcs))
    /\ out = <<>>
    /\ eos = 0
    /\ evals = <<>>

\* list(zipped): one pull
ZipLongestNext == Deliver(zip_longest_next(obj, iters))

SpecZipLongest == InitZipLongest /\ [][ZipLongestNext]_vars

RECURSIVE MaxLenOf(_, _)
MaxLenOf(ss, i) ==
    IF i > Len(ss) THEN 0 ELSE Max(Len(ss[i]), MaxLenOf(ss, i + 1))

\* tuple k of the expected output: element k of each source, or the fill
ZipExpected ==
    [k \in 1..MaxLenOf(srcs, 1) |->
        [i \in 1..Len(srcs) |-> IF k <= Len(srcs[i]) THEN srcs[i][k] ELSE fillvalue]]

ChainMaxSources == 3    \* most iterables chained

\* chain('abc', [1, 2, 3]); the ints are written as strings, which is all TLC
\* can hold beside strings
ChainExample == << <<"a", "b", "c">>, <<"1", "2", "3">> >>

\* chain.from_iterable(['ABC', 'DEF'])
FromIterableExample == << <<"A", "B", "C">>, <<"D", "E", "F">> >>

ChainInputs ==
    UNION {{[i \in 1..n |-> Prefix(Letters(i), f[i])] : f \in [1..n -> 0..MaxLen]} :
              n \in 0..ChainMaxSources}

\* chain.__next__ giving up when the active iterable ends
chain_next_stops(o, its) ==
    IF o.source = 0
    THEN [obj |-> o, its |-> its, ret |-> <<>>, ev |-> <<>>]
    ELSE IF o.active = 0 /\ o.taken >= Len(srcs)
    THEN [obj |-> [o EXCEPT !.source = 0], its |-> its, ret |-> <<>>, ev |-> <<>>]
    ELSE LET a == IF o.active = 0 THEN o.taken + 1 ELSE o.active
             r == next(its, a)
         IN  IF r.item # <<>>
             THEN [obj |-> [o EXCEPT !.active = a, !.taken = Max(@, a)],
                   its |-> r.its, ret |-> r.item, ev |-> <<>>]
             ELSE [obj |-> [o EXCEPT !.active = 0, !.taken = Max(@, a)],
                   its |-> r.its, ret |-> <<>>, ev |-> <<>>]

\* chain.__next__: source is the iterator over the iterables (taken counts
\* what it has handed out), active the iterable being read (0: none).  When
\* the active iterable ends the call starts over with the next one.
RECURSIVE chain_next(_, _)
chain_next(o, its) ==
    IF o.source = 0
    THEN [obj |-> o, its |-> its, ret |-> <<>>, ev |-> <<>>]
    ELSE IF o.active = 0 /\ o.taken >= Len(srcs)
    THEN [obj |-> [o EXCEPT !.source = 0], its |-> its, ret |-> <<>>, ev |-> <<>>]
    ELSE LET a == IF o.active = 0 THEN o.taken + 1 ELSE o.active
             r == next(its, a)
         IN  IF r.item # <<>>
             THEN [obj |-> [o EXCEPT !.active = a, !.taken = Max(@, a)],
                   its |-> r.its, ret |-> r.item, ev |-> <<>>]
             ELSE chain_next([o EXCEPT !.active = 0, !.taken = Max(@, a)], r.its)

\* chained_iterator = chain('abc', [1, 2, 3]), and
\* chained_iterator = chain.from_iterable(['ABC', 'DEF']): both build the same
\* object over an iterator of the iterables
InitChain ==
    /\ srcs \in ChainInputs \cup {ChainExample, FromIterableExample}
    /\ obj = [ob_type |-> "chain", source |-> 1, taken |-> 0, active |-> 0]
    /\ iters = iter(Len(srcs))
    /\ out = <<>>
    /\ eos = 0
    /\ evals = <<>>

\* list(chained_iterator): one pull
ChainNext == Deliver(chain_next(obj, iters))

SpecChain == InitChain /\ [][ChainNext]_vars

RECURSIVE Concat(_, _)
Concat(ss, i) == IF i > Len(ss) THEN <<>> ELSE ss[i] \o Concat(ss, i + 1)

\* C7: chain emits the concatenation of its sources; source k+1 is neither
\* fetched nor read before source k has signalled exhaustion; for a single
\* source s, list(chain(s)) = list(s).
C7_ChainInOrder ==
    /\ IsPrefix(out, Concat(srcs, 1))
    /\ eos > 0 => out = Concat(srcs, 1)
    /\ Len(srcs) = 1 /\ eos > 0 => out = srcs[1]
    /\ \A k \in 1..Len(srcs) - 1 :
          (iters[k + 1].calls > 0 \/ obj.taken > k) => iters[k].calls > Len(srcs[k])
    /\ obj.taken <= Len(srcs)

\* the notebook's cell: ['a','b','c',1,2,3], the second source read only
\* after the first had signalled exhaustion
C7_Witness ==
    /\ srcs = ChainExample
    /\ out = <<"a", "b", "c", "1", "2", "3">>
    /\ eos > 0
    /\ iters[1].calls = 4

\* the single-source case of C7, reached as well
C7_WitnessSingle ==
    /\ Len(srcs) = 1 /\ Len(srcs[1]) = MaxLen
    /\ eos > 0 /\ out = srcs[1]

\* ------------------------------------------------------------ combinations

CombMaxM == 5    \* longest enumerated pool range(m)
CombMaxR == 6    \* largest enumerated r, above CombMaxM to reach r > m

\* combinations([1, 2, 3], 2)
CombExample == [pool |-> <<1, 2, 3>>, r |-> 2]

CombInputs ==
    {[pool |-> range(m), r |-> r] : m \in 0..CombMaxM, r \in 0..CombMaxR}
    \cup {CombExample}

\* tuple(pool[i] for i in indices[:r]); indices are 0-based
select(pool, indices, r) == [k \in 1..r |-> pool[indices[k] + 1]]

\* the rightmost place i (1-based) with indices[i] # i + n - r, 0 if none
RECURSIVE comb_scan(_, _, _, _)
comb_scan(indices, n, r, i) ==
    IF i = 0 THEN 0
    ELSE IF indices[i] # (i - 1) + n - r THEN i
    ELSE comb_scan(indices, n, r, i - 1)

\* combinations.__next__ that bumps indices[i] and leaves the places right
\* of i as they are
combinations_next_noreset(o, its) ==
    IF o.stopped = 1
    THEN [obj |-> o, its |-> its, ret |-> <<>>, ev |-> <<>>]
    ELSE IF o.result = 0
    THEN [obj |-> [o EXCEPT !.result = 1], its |-> its,
          ret |-> <<select(o.pool, o.indices, o.r)>>, ev |-> <<>>]
    ELSE LET n == Len(o.pool)
             i == comb_scan(o.indices, n, o.r, o.r)
         IN  IF i = 0
             THEN [obj |-> [o EXCEPT !.stopped = 1], its |-> its, ret |-> <<>>, ev |-> <<>>]
             ELSE LET ind == [o.indices EXCEPT ![i] = @ + 1]
                  IN  [obj |-> [o EXCEPT !.indices = ind], its |-> its,
                       ret |-> <<select(o.pool, ind, o.r)>>, ev |-> <<>>]

\* combinations.__next__: the first call returns the first r elements; a later
\* call finds the rightmost index not at its maximum, bumps it and sets every
\* index right of it to its left neighbour plus one
combinations_next(o, its) ==
    IF o.stopped = 1
    THEN [obj |-> o, its |-> its, ret |-> <<>>, ev |-> <<>>]
    ELSE IF o.result = 0
    THEN [obj |-> [o EXCEPT !.result = 1], its |-> its,
          ret |-> <<select(o.pool, o.indices, o.r)>>, ev |-> <<>>]
    ELSE LET n == Len(o.pool)
             i == comb_scan(o.indices, n, o.r, o.r)
         IN  IF i = 0
             THEN [obj |-> [o EXCEPT !.stopped = 1], its |-> its, ret |-> <<>>, ev |-> <<>>]
             ELSE LET ind == [j \in 1..o.r |->
                                 IF j < i THEN o.indices[j]
                                 ELSE o.indices[i] + 1 + (j - i)]
                  IN  [obj |-> [o EXCEPT !.indices = ind], its |-> its,
                       ret |-> <<select(o.pool, ind, o.r)>>, ev |-> <<>>]

\* the state of an input list once tuple(iterable) has read it to the end
drained(ss) == [i \in 1..Len(ss) |-> [idx |-> Len(ss[i]), calls |-> Len(ss[i]) + 1]]

\* combinations = combinations([1, 2, 3], 2): the pool is a tuple of the
\* iterable, taken at construction; r > n builds the object already stopped
InitCombinations ==
    \E a \in CombInputs :
        /\ srcs = <<a.pool>>
        /\ obj = [ob_type |-> "combinations",
                  pool |-> a.pool, indices |-> [k \in 1..a.r |-> k - 1], r |-> a.r,
                  result |-> 0, stopped |-> IF a.r > Len(a.pool) THEN 1 ELSE 0]
        /\ iters = drained(<<a.pool>>)
        /\ out = <<>>
        /\ eos = 0
        /\ evals = <<>>

\* list(combinations): one pull
CombinationsNext == Deliver(combinations_next(obj, iters))

SpecCombinations == InitCombinations /\ [][CombinationsNext]_vars

\* the place of x in a pool of distinct elements, 0-based
IndexOf(pool, x) == (CHOOSE i \in 1..Len(pool) : pool[i] = x) - 1

IndexVector(pool, t) == [k \in 1..Len(t) |-> IndexOf(pool, t[k])]

\* a before b in lexicographic order, a and b of one length
RECURSIVE LexLess(_, _)
LexLess(a, b) ==
    IF a = <<>> THEN FALSE
    ELSE IF Head(a) # Head(b) THEN Head(a) < Head(b)
    ELSE LexLess(Tail(a), Tail(b))

RECURSIVE Binomial(_, _)
Binomial(m, r) ==
    IF r = 0 THEN 1
    ELSE IF r > m THEN 0
    ELSE Binomial(m - 1, r - 1) + Binomial(m - 1, r)

\* C8: combinations emits C(m, r) tuples, each strictly increasing in index,
\* in lexicographic order of index vector (so pairwise distinct), and none
\* for r > m.
C8_Combinations ==
    LET m == Len(srcs[1])
        r == obj.r
        iv(j) == IndexVector(srcs[1], out[j])
    IN  /\ \A j \in 1..Len(out) :
              /\ Len(out[j]) = r
              /\ \A k \in 1..r - 1 : iv(j)[k] < iv(j)[k + 1]
        /\ \A j \in 1..Len(out) - 1 : LexLess(iv(j), iv(j + 1))
        /\ \A j, k \in 1..Len(out) : j # k => out[j] # out[k]
        /\ Len(out) <= Binomial(m, r)
        /\ eos > 0 => Len(out) = Binomial(m, r)
        /\ r > m => out = <<>>

\* the notebook's cell: (1,2),(1,3),(2,3)
C8_Witness ==
    /\ srcs = <<CombExample.pool>> /\ obj.r = 2
    /\ out = << <<1, 2>>, <<1, 3>>, <<2, 3>> >>
    /\ eos > 0

\* combinations(range(5), 3) has given its 10 tuples
C8_WitnessRange ==
    /\ srcs = <<range(CombMaxM)>> /\ obj.r = 3
    /\ Len(out) = Binomial(CombMaxM, 3)
    /\ eos > 0

\* ------------------------------------------------------------ permutations

PermMaxM == 4    \* longest enumerated pool range(m)
PermMaxR == 5    \* largest enumerated r, above PermMaxM to reach r > m

\* permutations('abc'): r is left out and defaults to the pool's length
PermExample == [pool |-> <<"a", "b", "c">>, r |-> None]

\* the pools are cut from 'abcdef', which holds the notebook's 'abc'
PermLetters == <<"a", "b", "c", "d", "e", "f">>

PermInputs ==
    {[pool |-> Prefix(PermLetters, m), r |-> r] :
        m \in 0..PermMaxM, r \in {None} \cup 0..PermMaxR}

\* the loop of permutations.__next__ over the places i = r .. 1 (1-based):
\* cycles[i] counts down; at 0 the index at i is rotated to the end and the
\* loop moves left, else the index at i is swapped with the one cycles[i]
\* places from the end and the loop ends.  i = 0: every cycle has wrapped.
RECURSIVE perm_step(_, _, _, _)
perm_step(indices, cycles, n, i) ==
    IF i = 0 THEN [indices |-> indices, cycles |-> cycles, done |-> TRUE]
    ELSE IF cycles[i] - 1 = 0
    THEN LET rot == [k \in 1..n |->
                        IF k < i THEN indices[k]
                        ELSE IF k < n THEN indices[k + 1]
                        ELSE indices[i]]
         IN  perm_step(rot, [cycles EXCEPT ![i] = n - (i - 1)], n, i - 1)
    ELSE LET j == cycles[i] - 1
             sw == [indices EXCEPT ![i] = indices[n - j + 1], ![n - j + 1] = indices[i]]
         IN  [indices |-> sw, cycles |-> [cycles EXCEPT ![i] = j], done |-> FALSE]

\* permutations.__next__ that swaps where it should rotate
RECURSIVE perm_step_norotate(_, _, _, _)
perm_step_norotate(indices, cycles, n, i) ==
    IF i = 0 THEN [indices |-> indices, cycles |-> cycles, done |-> TRUE]
    ELSE IF cycles[i] - 1 = 0
    THEN perm_step_norotate(indices, [cycles EXCEPT ![i] = n - (i - 1)], n, i - 1)
    ELSE LET j == cycles[i] - 1
             sw == [indices EXCEPT ![i] = indices[n - j + 1], ![n - j + 1] = indices[i]]
         IN  [indices |-> sw, cycles |-> [cycles EXCEPT ![i] = j], done |-> FALSE]

permutations_next_norotate(o, its) ==
    IF o.stopped = 1
    THEN [obj |-> o, its |-> its, ret |-> <<>>, ev |-> <<>>]
    ELSE IF o.result = 0
    THEN [obj |-> [o EXCEPT !.result = 1], its |-> its,
          ret |-> <<select(o.pool, o.indices, o.r)>>, ev |-> <<>>]
    ELSE LET s == perm_step_norotate(o.indices, o.cycles, Len(o.pool), o.r)
         IN  IF Len(o.pool) = 0 \/ s.done
             THEN [obj |-> [o EXCEPT !.stopped = 1], its |-> its, ret |-> <<>>, ev |-> <<>>]
             ELSE [obj |-> [o EXCEPT !.indices = s.indices, !.cycles = s.cycles],
                   its |-> its, ret |-> <<select(o.pool, s.indices, o.r)>>, ev |-> <<>>]

\* permutations.__next__
permutations_next(o, its) ==
    IF o.stopped = 1
    THEN [obj |-> o, its |-> its, ret |-> <<>>, ev |-> <<>>]
    ELSE IF o.result = 0
    THEN [obj |-> [o EXCEPT !.result = 1], its |-> its,
          ret |-> <<select(o.pool, o.indices, o.r)>>, ev |-> <<>>]
    ELSE LET s == perm_step(o.indices, o.cycles, Len(o.pool), o.r)
         IN  IF Len(o.pool) = 0 \/ s.done
             THEN [obj |-> [o EXCEPT !.stopped = 1], its |-> its, ret |-> <<>>, ev |-> <<>>]
             ELSE [obj |-> [o EXCEPT !.indices = s.indices, !.cycles = s.cycles],
                   its |-> its, ret |-> <<select(o.pool, s.indices, o.r)>>, ev |-> <<>>]

\* permutations = permutations('abc'): the pool is a tuple of the iterable;
\* r=None becomes len(pool); indices = range(n), cycles = n, n-1, ..., n-r+1;
\* r > n builds the object already stopped
permutations(a) ==
    LET n == Len(a.pool)
        r == IF a.r = None THEN n ELSE a.r
    IN  [ob_type |-> "permutations",
         pool |-> a.pool, indices |-> [k \in 1..n |-> k - 1],
         cycles |-> [k \in 1..r |-> n - (k - 1)], r |-> r,
         result |-> 0, stopped |-> IF r > n THEN 1 ELSE 0]

InitPermutations ==
    \E a \in PermInputs \cup {PermExample} :
        /\ srcs = <<a.pool>>
        /\ obj = permutations(a)
        /\ iters = drained(<<a.pool>>)
        /\ out = <<>>
        /\ eos = 0
        /\ evals = <<>>

\* list(permutations): one pull
PermutationsNext == Deliver(permutations_next(obj, iters))

SpecPermutations == InitPermutations /\ [][PermutationsNext]_vars

RECURSIVE FallingFactorial(_, _)
FallingFactorial(m, r) == IF r = 0 THEN 1 ELSE m * FallingFactorial(m - 1, r - 1)

\* C9: permutations emits the r-length sequences of pairwise distinct indices
\* in lexicographic order of index vector, m!/(m-r)! of them for r <= m (r
\* being m when left out) and none for r > m.
C9_Permutations ==
    LET m == Len(srcs[1])
        r == obj.r
        iv(j) == IndexVector(srcs[1], out[j])
    IN  /\ \A j \in 1..Len(out) :
              /\ Len(out[j]) = r
              /\ \A k, l \in 1..r : k # l => iv(j)[k] # iv(j)[l]
        /\ \A j \in 1..Len(out) - 1 : LexLess(iv(j), iv(j + 1))
        /\ r <= m => Len(out) <= FallingFactorial(m, r)
        /\ eos > 0 /\ r <= m => Len(out) = FallingFactorial(m, r)
        /\ r > m => out = <<>>

\* the notebook's cell: abc, acb, bac, bca, cab, cba, with r defaulted to 3
C9_Witness ==
    /\ srcs = <<PermExample.pool>> /\ obj.r = 3
    /\ out = << <<"a", "b", "c">>, <<"a", "c", "b">>, <<"b", "a", "c">>,
                <<"b", "c", "a">>, <<"c", "a", "b">>, <<"c", "b", "a">> >>
    /\ eos > 0

\* permutations('abcd', 2) has given its 12 tuples
C9_WitnessPartial ==
    /\ srcs = <<Prefix(PermLetters, PermMaxM)>> /\ obj.r = 2
    /\ Len(out) = FallingFactorial(PermMaxM, 2)
    /\ eos > 0

\* ----------------------------------------------------------------- product

ProdMaxPools == 2     \* most iterables passed to product
ProdMaxLen == 2       \* longest enumerated iterable
ProdMaxRepeat == 2    \* largest enumerated repeat
ProdMaxPlaces == 4    \* most pools after the repetition

\* product([1, 2], ['a', 'b']); the ints are written as strings, which is all
\* TLC can hold beside strings
ProdExample == [args |-> << <<"1", "2">>, <<"a", "b">> >>, repeat |-> 1]

ProdInputs ==
    {[args |-> [i \in 1..n |-> Prefix(Letters(i), f[i])], repeat |-> k] :
        <<n, f, k>> \in UNION {{<<n, f, k>> : f \in [1..n -> 0..ProdMaxLen],
                                             k \in {j \in 0..ProdMaxRepeat :
                                                        n * j <= ProdMaxPlaces}} :
                               n \in 0..ProdMaxPools}}
    \cup {ProdExample}

\* [tuple(pool) for pool in args] * repeat
RECURSIVE pools_of(_, _)
pools_of(args, repeat) ==
    IF repeat = 0 THEN <<>> ELSE args \o pools_of(args, repeat - 1)

\* the odometer of product.__next__ from place i (1-based) leftwards: a place
\* at the end of its pool wraps to 0 and carries; i = 0: every place wrapped
RECURSIVE product_step(_, _, _)
product_step(pools, indices, i) ==
    IF i = 0 THEN [indices |-> indices, done |-> TRUE]
    ELSE IF indices[i] + 1 = Len(pools[i])
    THEN product_step(pools, [indices EXCEPT ![i] = 0], i - 1)
    ELSE [indices |-> [indices EXCEPT ![i] = @ + 1], done |-> FALSE]

\* the odometer run from the leftmost place rightwards
RECURSIVE product_step_leftmost(_, _, _)
product_step_leftmost(pools, indices, i) ==
    IF i > Len(pools) THEN [indices |-> indices, done |-> TRUE]
    ELSE IF indices[i] + 1 = Len(pools[i])
    THEN product_step_leftmost(pools, [indices EXCEPT ![i] = 0], i + 1)
    ELSE [indices |-> [indices EXCEPT ![i] = @ + 1], done |-> FALSE]

\* result[i] = pool_i[indices[i]]
product_result(pools, indices) == [i \in 1..Len(pools) |-> pools[i][indices[i] + 1]]

\* product.__next__ with the leftmost iterable varying fastest
product_next_leftmost(o, its) ==
    IF o.stopped = 1
    THEN [obj |-> o, its |-> its, ret |-> <<>>, ev |-> <<>>]
    ELSE IF o.result = 0
    THEN IF \E i \in 1..Len(o.pools) : Len(o.pools[i]) = 0
         THEN [obj |-> [o EXCEPT !.stopped = 1], its |-> its, ret |-> <<>>, ev |-> <<>>]
         ELSE [obj |-> [o EXCEPT !.result = 1], its |-> its,
               ret |-> <<product_result(o.pools, o.indices)>>, ev |-> <<>>]
    ELSE LET s == product_step_leftmost(o.pools, o.indices, 1)
         IN  IF s.done
             THEN [obj |-> [o EXCEPT !.stopped = 1], its |-> its, ret |-> <<>>, ev |-> <<>>]
             ELSE [obj |-> [o EXCEPT !.indices = s.indices], its |-> its,
                   ret |-> <<product_result(o.pools, s.indices)>>, ev |-> <<>>]

\* product.__next__: the first call returns the first element of every pool,
\* or stops if a pool is empty; a later call steps the odometer
product_next(o, its) ==
    IF o.stopped = 1
    THEN [obj |-> o, its |-> its, ret |-> <<>>, ev |-> <<>>]
    ELSE IF o.result = 0
    THEN IF \E i \in 1..Len(o.pools) : Len(o.pools[i]) = 0
         THEN [obj |-> [o EXCEPT !.stopped = 1], its |-> its, ret |-> <<>>, ev |-> <<>>]
         ELSE [obj |-> [o EXCEPT !.result = 1], its |-> its,
               ret |-> <<product_result(o.pools, o.indices)>>, ev |-> <<>>]
    ELSE LET s == product_step(o.pools, o.indices, Len(o.pools))
         IN  IF s.done
             THEN [obj |-> [o EXCEPT !.stopped = 1], its |-> its, ret |-> <<>>, ev |-> <<>>]
             ELSE [obj |-> [o EXCEPT !.indices = s.indices], its |-> its,
                   ret |-> <<product_result(o.pools, s.indices)>>, ev |-> <<>>]

\* product = product([1, 2], ['a', 'b']): every iterable is read into a tuple
\* at construction and the list of pools repeated
InitProduct ==
    \E a \in ProdInputs :
        /\ srcs = a.args
        /\ obj = [ob_type |-> "product",
                  pools |-> pools_of(a.args, a.repeat),
                  indices |-> [i \in 1..Len(a.args) * a.repeat |-> 0],
                  repeat |-> a.repeat, result |-> 0, stopped |-> 0]
        /\ iters = drained(a.args)
        /\ out = <<>>
        /\ eos = 0
        /\ evals = <<>>

\* list(product): one pull
ProductNext == Deliver(product_next(obj, iters))

SpecProduct == InitProduct /\ [][ProductNext]_vars

\* same_product = ((x,y) for x in [1, 2] for y in ['a', 'b']), for any number
\* of for clauses: the leftmost clause is the outermost loop
RECURSIVE same_product(_)
RECURSIVE same_product_from(_, _)
same_product(pools) ==
    IF pools = <<>> THEN << <<>> >> ELSE same_product_from(pools, 1)
same_product_from(pools, x) ==
    IF x > Len(pools[1]) THEN <<>>
    ELSE LET inner == same_product(Tail(pools))
         IN  [j \in 1..Len(inner) |-> <<pools[1][x]>> \o inner[j]]
             \o same_product_from(pools, x + 1)

\* srcs repeated as the call repeats them, from the arguments alone
RECURSIVE Repeated(_, _)
Repeated(ss, k) == IF k = 0 THEN <<>> ELSE ss \o Repeated(ss, k - 1)

\* C10: product emits what nested for-loops over the sources, repeated repeat
\* times, emit, the rightmost varying fastest: nothing if one of the repeated
\* sources is empty, one empty tuple if there is none.
C10_ProductIsNestedLoops ==
    LET ps == Repeated(srcs, obj.repeat)
    IN  /\ IsPrefix(out, same_product(ps))
        /\ eos > 0 => out = same_product(ps)
        /\ (\E i \in 1..Len(ps) : ps[i] = <<>>) => out = <<>>
        /\ ps = <<>> /\ eos > 0 => out = << <<>> >>

\* the notebook's cells: (1,a),(1,b),(2,a),(2,b) from both
C10_Witness ==
    /\ srcs = ProdExample.args
    /\ obj.repeat = 1
    /\ out = << <<"1", "a">>, <<"1", "b">>, <<"2", "a">>, <<"2", "b">> >>
    /\ out = same_product(srcs)
    /\ eos > 0

\* product('AB', 'xy', repeat=2) has given its 16 tuples
C10_WitnessRepeat ==
    /\ Len(srcs) = 2 /\ Len(srcs[1]) = 2 /\ Len(srcs[2]) = 2
    /\ obj.repeat = 2
    /\ Len(out) = 16
    /\ eos > 0

\* product() has given its one empty tuple
C10_WitnessNoSource ==
    /\ srcs = <<>> /\ obj.repeat = 1
    /\ out = << <<>> >>
    /\ eos > 0

\* ----------------------------------------------------------------- groupby

MaxGroupEos == 2    \* pulls made on a group that end in StopIteration
MaxHeld == 2        \* latest groups whose sub-iterator the consumer still holds
                    \* (the notebook's "for k, g in" holds one)

\* groupby('AAAABBBCCDAABBB')
GroupbyExample ==
    <<"A", "A", "A", "A", "B", "B", "B", "C", "C", "D", "A", "A", "B", "B", "B">>

GroupbyVals == {"A", "a", "B"}

\* key=None compares the elements themselves; str.lower is a key function
\* under which 'A' and 'a' fall together
key(keyfunc, x) ==
    IF keyfunc = "None" THEN x
    ELSE IF x = "A" THEN "a"
    ELSE IF x = "B" THEN "b"
    ELSE x

GroupbyInputs ==
    {[src |-> s, keyfunc |-> f] : s \in SeqsUpTo(GroupbyVals, MaxLen),
                                  f \in {"None", "lower"}}
    \cup {[src |-> GroupbyExample, keyfunc |-> "None"]}

\* groupby_step: read one element and its key into currvalue and currkey
groupby_step(o, its) ==
    LET r == next(its, 1)
    IN  IF r.item = <<>>
        THEN [ok |-> FALSE, obj |-> o, its |-> r.its, ev |-> <<>>]
        ELSE [ok |-> TRUE,
              obj |-> [o EXCEPT !.currvalue = r.item,
                                !.currkey = <<key(o.keyfunc, r.item[1])>>],
              its |-> r.its, ev |-> <<r.its[1].idx>>]

\* the loop of groupby.__next__ cut to one step: the rest of an unread group
\* is not skipped
groupby_skip_once(o, its) == groupby_step(o, its)

\* the loop of groupby.__next__: step until currkey differs from tgtkey
RECURSIVE groupby_skip(_, _)
groupby_skip(o, its) ==
    IF o.currkey # <<>> /\ (o.tgtkey = <<>> \/ o.tgtkey # o.currkey)
    THEN [ok |-> TRUE, obj |-> o, its |-> its, ev |-> <<>>]
    ELSE LET s == groupby_step(o, its)
         IN  IF ~s.ok THEN s
             ELSE LET k == groupby_skip(s.obj, s.its)
                  IN  [k EXCEPT !.ev = s.ev \o @]

\* groupby.__next__; n is the number of groups handed out so far, and the new
\* group's _grouper (number n + 1) becomes currgrouper
groupby_next(o, its, n) ==
    LET k == groupby_skip([o EXCEPT !.currgrouper = 0], its)
    IN  IF ~k.ok
        THEN [obj |-> k.obj, its |-> k.its, ret |-> <<>>, ev |-> k.ev]
        ELSE [obj |-> [k.obj EXCEPT !.tgtkey = k.obj.currkey, !.currgrouper = n + 1],
              its |-> k.its,
              ret |-> <<[key |-> k.obj.currkey[1], items |-> <<>>, eos |-> 0,
                         held |-> TRUE]>>,
              ev |-> k.ev]

\* _grouper.__next__ without the test that the group is still the current
\* one: it goes on reading for its key
grouper_next_unchecked(o, its, j, tgtkey) ==
    LET s == IF o.currvalue = <<>> THEN groupby_step(o, its)
             ELSE [ok |-> TRUE, obj |-> o, its |-> its, ev |-> <<>>]
    IN  IF ~s.ok \/ s.obj.currkey # <<tgtkey>>
        THEN [obj |-> s.obj, its |-> s.its, ret |-> <<>>, ev |-> s.ev]
        ELSE [obj |-> [s.obj EXCEPT !.currvalue = <<>>], its |-> s.its,
              ret |-> s.obj.currvalue, ev |-> s.ev]

\* _grouper.__next__ of group j, whose tgtkey is tgtkey
grouper_next(o, its, j, tgtkey) ==
    IF o.currgrouper # j
    THEN [obj |-> o, its |-> its, ret |-> <<>>, ev |-> <<>>]
    ELSE LET s == IF o.currvalue = <<>> THEN groupby_step(o, its)
                  ELSE [ok |-> TRUE, obj |-> o, its |-> its, ev |-> <<>>]
         IN  IF ~s.ok \/ s.obj.currkey # <<tgtkey>>
             THEN [obj |-> s.obj, its |-> s.its, ret |-> <<>>, ev |-> s.ev]
             ELSE [obj |-> [s.obj EXCEPT !.currvalue = <<>>], its |-> s.its,
                   ret |-> s.obj.currvalue, ev |-> s.ev]

\* groupby('AAAABBBCCDAABBB'): nothing is read at construction
InitGroupby ==
    \E a \in GroupbyInputs :
        /\ srcs = <<a.src>>
        /\ obj = [ob_type |-> "groupby",
                  keyfunc |-> a.keyfunc, tgtkey |-> <<>>, currkey |-> <<>>,
                  currvalue |-> <<>>, currgrouper |-> 0]
        /\ iters = iter(1)
        /\ out = <<>>
        /\ eos = 0
        /\ evals = <<>>

\* the consumer lets go of all but the latest MaxHeld sub-iterators, and of
\* what it read from them
release(gs) ==
    [j \in 1..Len(gs) |->
        IF j <= Len(gs) - MaxHeld
        THEN [key |-> gs[j].key, items |-> <<>>, eos |-> 0, held |-> FALSE]
        ELSE gs[j]]

\* for k, g in groupby(...): one pull of the outer iterator
GroupbyNext ==
    /\ eos < MaxEos
    /\ LET r == groupby_next(obj, iters, Len(out))
       IN  /\ obj' = r.obj
           /\ iters' = r.its
           /\ evals' = evals \o r.ev
           /\ out' = release(out \o r.ret)
           /\ eos' = IF r.ret = <<>> THEN eos + 1 ELSE eos
    /\ UNCHANGED srcs

\* one pull of g, the sub-iterator of a group still held, current or not
GrouperNext ==
    \E j \in 1..Len(out) :
        /\ out[j].held
        /\ out[j].eos < MaxGroupEos
        /\ LET r == grouper_next(obj, iters, j, out[j].key)
           IN  /\ obj' = r.obj
               /\ iters' = r.its
               /\ evals' = evals \o r.ev
               /\ out' = [out EXCEPT ![j] =
                            IF r.ret = <<>> THEN [@ EXCEPT !.eos = @ + 1]
                            ELSE [@ EXCEPT !.items = @ \o r.ret]]
        /\ UNCHANGED <<srcs, eos>>

NextGroupby == GroupbyNext \/ GrouperNext

SpecGroupby == InitGroupby /\ [][NextGroupby]_vars

\* the maximal runs of adjacent elements with equal key, in order
RECURSIVE Runs(_, _, _)
Runs(s, f, i) ==
    IF i > Len(s) THEN <<>>
    ELSE LET rest == Runs(s, f, i + 1)
         IN  IF rest # <<>> /\ rest[1].key = key(f, s[i])
             THEN <<[key |-> rest[1].key, items |-> <<s[i]>> \o rest[1].items]>>
                  \o Tail(rest)
             ELSE <<[key |-> key(f, s[i]), items |-> <<s[i]>>]>> \o rest

C2_WitnessKeysOnly ==
    /\ srcs = <<GroupbyExample>>
    /\ [j \in 1..Len(out) |-> out[j].key] = <<"A", "B", "C", "D", "A", "B">>
    /\ \A j \in 1..Len(out) : out[j].held => out[j].items = <<>> /\ out[j].eos = 0
    /\ eos > 0

\* --------------------------------------------------------------------- tee

TeeMaxN == 3    \* most clones asked of tee

\* iterable = ['a', 'b', 'c'], and the shorter and longer lists like it
TeeLetters == <<"a", "b", "c", "d", "e">>

\* the values of the shared data are kept in a chain of teedataobject blocks
\* of LINKCELLS values each; a clone refers to one block (dataobj) and to a
\* place in it (index)
LINKCELLS == 57

\* the place of clone c in the source: the values it has been given
tee_position(o, c) == LINKCELLS * o.dataobj[c] + o.index[c]

\* the shared data of the clones serving cursor c from the source alone
teedataobject_getitem_unbuffered(o, its, c) ==
    LET r == next(its, 1)
    IN  [obj |-> o, its |-> r.its, item |-> r.item]

\* teedataobject_getitem for cursor c: an element already read is served from
\* values (the blocks from block first on); at the frontier one element is
\* read from the source and kept
teedataobject_getitem(o, its, c) ==
    IF tee_position(o, c) < o.numread
    THEN [obj |-> o, its |-> its,
          item |-> <<o.values[tee_position(o, c) - LINKCELLS * o.first + 1]>>]
    ELSE LET r == next(its, 1)
         IN  IF r.item = <<>>
             THEN [obj |-> o, its |-> r.its, item |-> <<>>]
             ELSE [obj |-> [o EXCEPT !.numread = @ + 1, !.values = @ \o r.item],
                   its |-> r.its, item |-> r.item]

\* the first block some clone still refers to
RECURSIVE tee_first_held(_, _)
tee_first_held(o, c) ==
    IF c = o.n THEN o.dataobj[c]
    ELSE Min(o.dataobj[c], tee_first_held(o, c + 1))

\* a block is freed with the last reference to it: as soon as the fastest
\* clone has left it
RECURSIVE tee_last_held(_, _)
tee_last_held(o, c) ==
    IF c = o.n THEN o.dataobj[c]
    ELSE Max(o.dataobj[c], tee_last_held(o, c + 1))

tee_dealloc_eager(o) ==
    LET f == tee_last_held(o, 1)
    IN  [o EXCEPT !.first = f,
                  !.values = SubSeq(@, Min(Len(@), LINKCELLS * (f - o.first)) + 1, Len(@))]

\* a block is freed with the last reference to it: when no clone refers to
\* it or to a block before it (a block refers to its successor)
tee_dealloc(o) ==
    LET f == tee_first_held(o, 1)
    IN  [o EXCEPT !.first = f,
                  !.values = SubSeq(@, LINKCELLS * (f - o.first) + 1, Len(@))]

\* tee.__next__ of clone c: a clone at the end of its block moves to the next
\* block first, letting go of the old one; then it gets the item at its index
\* and moves on
tee_next(o, its, c) ==
    LET j == IF o.index[c] >= LINKCELLS
             THEN tee_dealloc([o EXCEPT !.dataobj[c] = @ + 1, !.index[c] = 0])
             ELSE o
        g == teedataobject_getitem(j, its, c)
    IN  IF g.item = <<>>
        THEN [obj |-> g.obj, its |-> g.its, ret |-> <<>>]
        ELSE [obj |-> [g.obj EXCEPT !.index[c] = @ + 1], its |-> g.its, ret |-> g.item]

\* tee(iterable, n): n clones at index 0 of one shared, empty block
tee(n) ==
    [ob_type |-> "tee", n |-> n, numread |-> 0, values |-> <<>>, first |-> 0,
     dataobj |-> [c \in 1..n |-> 0], index |-> [c \in 1..n |-> 0]]

\* clone_1, clone_2 = tee(iterable, 2): n clones at index 0 over one shared,
\* empty data object; nothing is read, and with n = 0 iter() is not even called
InitTee ==
    \E n \in 0..TeeMaxN, L \in 0..MaxLen :
        /\ srcs = <<Prefix(TeeLetters, L)>>
        /\ obj = tee(n)
        /\ iters = iter(1)
        /\ out = [c \in 1..n |-> <<>>]
        /\ eos = [c \in 1..n |-> 0]
        /\ evals = <<>>

\* list(clone_1), list(clone_2): one pull of clone c, in any interleaving
TeeNext ==
    \E c \in 1..obj.n :
        /\ eos[c] < MaxEos
        /\ LET r == tee_next(obj, iters, c)
           IN  /\ obj' = r.obj
               /\ iters' = r.its
               /\ out' = [out EXCEPT ![c] = @ \o r.ret]
               /\ eos' = [eos EXCEPT ![c] = IF r.ret = <<>> THEN @ + 1 ELSE @]
        /\ UNCHANGED <<srcs, evals>>

SpecTee == InitTee /\ [][TeeNext]_vars

\* every clone has been pulled to its end
TeeAllExhausted == \A c \in 1..obj.n : eos[c] > 0

\* C1 as stated, n = 0 included: every clone yields the source's elements in
\* order, and once all clones are exhausted the source has been pulled
\* len(s) times.
C1_TeeAnyN ==
    /\ \A c \in 1..obj.n : IsPrefix(out[c], srcs[1])
    /\ \A c \in 1..obj.n : eos[c] > 0 => out[c] = srcs[1]
    /\ TeeAllExhausted => iters[1].idx = Len(srcs[1])

\* C1 amended: for n >= 1 every clone, pulled to exhaustion in any
\* interleaving, yields the source's elements in order, each element is pulled
\* from the source once, when the first clone reaches it, and the source has
\* yielded len(s) elements once a clone is exhausted; for n = 0 there is no
\* clone and the source is never pulled.
C1_TeePositiveN ==
    /\ \A c \in 1..obj.n : IsPrefix(out[c], srcs[1])
    /\ \A c \in 1..obj.n : eos[c] > 0 => out[c] = srcs[1]
    /\ \A c \in 1..obj.n : Len(out[c]) <= iters[1].idx
    /\ obj.n >= 1 => \E c \in 1..obj.n : Len(out[c]) = iters[1].idx
    /\ (obj.n >= 1 /\ \E c \in 1..obj.n : eos[c] > 0) => iters[1].idx = Len(srcs[1])
    /\ obj.n = 0 => iters[1].idx = 0 /\ iters[1].calls = 0

\* the notebook's cells: both clones of ['a','b','c'] have given a, b, c and
\* the source has yielded three elements
C1_Witness ==
    /\ srcs = <<Prefix(TeeLetters, 3)>> /\ obj.n = 2
    /\ out = << <<"a", "b", "c">>, <<"a", "b", "c">> >>
    /\ eos[1] > 0 /\ eos[2] > 0
    /\ iters[1].idx = 3

\* ---------------------------------------------------------------------------
\* tee(): the shared buffer of the clones
\* ---------------------------------------------------------------------------

TeeLongExtra == 2   \* elements of the long source beyond one block of values

\* the clones of a short source, and one or two clones (the notebook's
\* clone_1 and clone_2) of a source longer than one block of values
InitTeeBuffer ==
    \E n \in 0..TeeMaxN, L \in (0..MaxLen) \cup {LINKCELLS + TeeLongExtra} :
        /\ L > MaxLen => n \in 1..2
        /\ srcs = <<range(L)>>
        /\ obj = tee(n)
        /\ iters = iter(1)
        /\ out = [c \in 1..n |-> <<>>]
        /\ eos = [c \in 1..n |-> 0]
        /\ evals = <<>>

SpecTeeBuffer == InitTeeBuffer /\ [][TeeNext]_vars

\* the cursor position of the clone furthest behind, and of the one furthest
\* ahead
RECURSIVE TeeMinPos(_, _)
TeeMinPos(o, c) ==
    IF c = o.n THEN tee_position(o, c)
    ELSE Min(tee_position(o, c), TeeMinPos(o, c + 1))

RECURSIVE TeeMaxPos(_, _)
TeeMaxPos(o, c) ==
    IF c = o.n THEN tee_position(o, c)
    ELSE Max(tee_position(o, c), TeeMaxPos(o, c + 1))

\* the source positions (from 0) of the elements the buffer holds
TeeBuffered(o) == (LINKCELLS * o.first)..(o.numread - 1)

\* an element leaves the buffer only after every clone has advanced past it:
\* everything from the slowest clone's position to the frontier is buffered,
\* in source order
TeeEvictedOnlyBehind ==
    obj.n >= 1 =>
        /\ (TeeMinPos(obj, 1)..(obj.numread - 1)) \subseteq TeeBuffered(obj)
        /\ obj.numread = TeeMaxPos(obj, 1)
        /\ obj.numread = iters[1].idx
        /\ obj.values = SubSeq(srcs[1], LINKCELLS * obj.first + 1, obj.numread)

\* C11 as stated, its state part: an element is evicted only after every
\* clone has advanced past it, and the number of buffered elements equals the
\* maximum cursor position minus the minimum cursor position.
C11_TeeBufferIsSpread ==
    /\ TeeEvictedOnlyBehind
    /\ obj.n >= 1 => Len(obj.values) = TeeMaxPos(obj, 1) - TeeMinPos(obj, 1)

\* a pull by clone c at the frontier: the source is asked once; the element
\* it gives, if any, goes to the clone and to the end of the buffer
TeeFrontierPull(c) ==
    /\ iters'[1].calls = iters[1].calls + 1
    /\ IF iters[1].idx < Len(srcs[1])
       THEN /\ iters'[1].idx = iters[1].idx + 1
            /\ out'[c] = Append(out[c], srcs[1][iters[1].idx + 1])
            /\ obj'.numread = obj.numread + 1
            /\ obj'.values # <<>> /\ obj'.values[Len(obj'.values)] = srcs[1][iters[1].idx + 1]
            /\ tee_position(obj', c) = tee_position(obj, c) + 1
       ELSE /\ iters'[1].idx = iters[1].idx
            /\ out'[c] = out[c] /\ eos'[c] = eos[c] + 1
            /\ obj'.numread = obj.numread
            /\ tee_position(obj', c) = tee_position(obj, c)

\* a pull by clone c behind the frontier: the buffered element at its
\* position goes to the clone, and the source is not touched
TeeBufferedPull(c) ==
    /\ iters' = iters
    /\ out'[c] = Append(out[c], obj.values[tee_position(obj, c) - LINKCELLS * obj.first + 1])
    /\ out'[c] = Append(out[c], srcs[1][tee_position(obj, c) + 1])
    /\ obj'.numread = obj.numread
    /\ tee_position(obj', c) = tee_position(obj, c) + 1

\* a pull moves one clone only, and does what its place asks for
TeePull ==
    \E c \in 1..obj.n :
        /\ \A d \in (1..obj.n) \ {c} :
              /\ tee_position(obj', d) = tee_position(obj, d)
              /\ out'[d] = out[d] /\ eos'[d] = eos[d]
        /\ IF tee_position(obj, c) < obj.numread
           THEN TeeBufferedPull(c)
           ELSE TeeFrontierPull(c)

\* C11 amended: in every state reachable by any sequence of pulls on the
\* clones of one tee, an element is evicted from the shared buffer only after
\* every clone has advanced past it, and, the buffer being released in whole
\* blocks of LINKCELLS elements, the number of buffered elements is at least
\* the maximum cursor position minus the minimum cursor position and at most
\* LINKCELLS more; a pull by a clone at the frontier asks the source exactly
\* once and appends the element it gives, if it gives one, and a pull by a
\* clone behind the frontier returns the buffered element at its position,
\* advances only that clone and does not touch the source.
C11_TeeBufferInBlocks ==
    /\ [](/\ TeeEvictedOnlyBehind
          /\ obj.n >= 1 =>
               /\ Len(obj.values) >= TeeMaxPos(obj, 1) - TeeMinPos(obj, 1)
               /\ Len(obj.values) <= TeeMaxPos(obj, 1) - TeeMinPos(obj, 1) + LINKCELLS)
    /\ [][TeePull]_vars

\* two clones of the long source, both past the first block, which has been
\* released: the slower one behind the frontier, and more elements buffered
\* than lie between the two
C11_Witness ==
    /\ obj.n = 2 /\ Len(srcs[1]) > LINKCELLS
    /\ obj.first >= 1
    /\ tee_position(obj, 2) < tee_position(obj, 1)
    /\ Len(obj.values) > tee_position(obj, 1) - tee_position(obj, 2)
    /\ out[2] = Prefix(srcs[1], tee_position(obj, 2))

\* ---------------------------------------------------------------------------
\* groupby(): a group left behind by the outer iterator
\* ---------------------------------------------------------------------------

\* the place in the source (from 1) of the first element of run j
RECURSIVE RunStart(_, _)
RunStart(runs, j) ==
    IF j = 1 THEN 1 ELSE RunStart(runs, j - 1) + Len(runs[j - 1].items)

\* the source is scanned once: its elements are read, and their keys taken,
\* one after the other and never again
GroupbyScansOnce ==
    /\ evals = [i \in 1..iters[1].idx |-> i]
    /\ iters[1].idx <= Len(srcs[1])

\* a pull of the outer iterator leaves every earlier group behind for good,
\* and a group it emits starts at the next change of key
GroupbyOuterPull ==
    (Len(out') > Len(out) \/ eos' > eos) =>
        /\ obj'.currgrouper = IF Len(out') > Len(out) THEN Len(out') ELSE 0
        /\ Len(out') > Len(out) =>
              LET runs == Runs(srcs[1], obj.keyfunc, 1)
              IN  /\ Len(out') = Len(out) + 1
                  /\ out'[Len(out')].key = runs[Len(out')].key
                  /\ out'[Len(out')].items = <<>>
                  /\ iters'[1].idx = RunStart(runs, Len(out'))

\* a pull of a group: only the current group is given an element, the next
\* one of its run; a group left behind is given nothing, and the source is
\* not read for it
GroupbyGroupPull ==
    (Len(out') = Len(out) /\ eos' = eos) =>
        /\ obj'.currgrouper \in {obj.currgrouper, 0}
        /\ \A j \in 1..Len(out) :
              IF out'[j].items # out[j].items
              THEN /\ j = obj.currgrouper
                   /\ LET runs == Runs(srcs[1], obj.keyfunc, 1)
                      IN  out'[j].items = Prefix(runs[j].items, Len(out[j].items) + 1)
              ELSE j # obj.currgrouper /\ out'[j].eos > out[j].eos => iters' = iters

C12_WitnessAtEnd ==
    /\ srcs = << <<"A", "A", "A">> >>
    /\ Len(out) = 1 /\ eos > 0
    /\ out[1].items = <<"A">> /\ out[1].eos > 0

\* ---------------------------------------------------------------------------
\* the other iterators of the notebook
\* ---------------------------------------------------------------------------

\* accumulate.__next__: the running sum of what the source has given
accumulate_next(o, its) ==
    LET r == next(its, 1)
    IN  IF r.item = <<>>
        THEN [obj |-> o, its |-> r.its, ret |-> <<>>, ev |-> <<>>]
        ELSE IF o.total = <<>>
        THEN [obj |-> [o EXCEPT !.total = r.item], its |-> r.its, ret |-> r.item,
              ev |-> <<>>]
        ELSE [obj |-> [o EXCEPT !.total = <<@[1] + r.item[1]>>], its |-> r.its,
              ret |-> <<o.total[1] + r.item[1]>>, ev |-> <<>>]

\* accumulations = accumulate([1, 2, 3])
InitAccumulate ==
    /\ srcs \in {<<s>> : s \in SeqsUpTo({1, 2, 3}, MaxLen)}
    /\ obj = [ob_type |-> "accumulate", total |-> <<>>]
    /\ iters = iter(1)
    /\ out = <<>>
    /\ eos = 0
    /\ evals = <<>>

\* list(accumulations): one pull
AccumulateNext == Deliver(accumulate_next(obj, iters))

\* compress('ABCDEF', [1,0,1,0,1,1])
CompressData == <<"A", "B", "C", "D", "E", "F">>

CompressSelectors == <<1, 0, 1, 0, 1, 1>>

\* compress.__next__ reading the selector before the datum
RECURSIVE compress_next_selector_first(_, _)
compress_next_selector_first(o, its) ==
    LET s == next(its, 2)
    IN  IF s.item = <<>>
        THEN [obj |-> o, its |-> s.its, ret |-> <<>>, ev |-> <<>>]
        ELSE LET d == next(s.its, 1)
             IN  IF d.item = <<>>
                 THEN [obj |-> o, its |-> d.its, ret |-> <<>>, ev |-> <<>>]
                 ELSE IF s.item[1] # 0
                 THEN [obj |-> o, its |-> d.its, ret |-> d.item, ev |-> <<>>]
                 ELSE compress_next_selector_first(o, d.its)

\* compress.__next__: a datum is read, then its selector; the datum is given
\* if the selector is true, and the call ends when either input ends
RECURSIVE compress_next(_, _)
compress_next(o, its) ==
    LET d == next(its, 1)
    IN  IF d.item = <<>>
        THEN [obj |-> o, its |-> d.its, ret |-> <<>>, ev |-> <<>>]
        ELSE LET s == next(d.its, 2)
             IN  IF s.item = <<>>
                 THEN [obj |-> o, its |-> s.its, ret |-> <<>>, ev |-> <<>>]
                 ELSE IF s.item[1] # 0
                 THEN [obj |-> o, its |-> s.its, ret |-> d.item, ev |-> <<>>]
                 ELSE compress_next(o, s.its)

\* filtered_values = compress('ABCDEF', [1,0,1,0,1,1])
InitCompress ==
    \E L \in (0..MaxLen) \cup {Len(CompressData)},
       sel \in SeqsUpTo({0, 1}, MaxLen) \cup {CompressSelectors} :
        /\ srcs = <<Prefix(CompressData, L), sel>>
        /\ obj = [ob_type |-> "compress"]
        /\ iters = iter(2)
        /\ out = <<>>
        /\ eos = 0
        /\ evals = <<>>

\* list(filtered_values): one pull
CompressNext == Deliver(compress_next(obj, iters))

\* the notebook's lambda x: x%2
odd(x) == x % 2 # 0

\* filterfalse.__next__: the next element on which the function is false
RECURSIVE filterfalse_next(_, _, _)
filterfalse_next(o, its, ev) ==
    LET r == next(its, 1)
    IN  IF r.item = <<>>
        THEN [obj |-> o, its |-> r.its, ret |-> <<>>, ev |-> ev]
        ELSE IF ~odd(r.item[1])
        THEN [obj |-> o, its |-> r.its, ret |-> r.item, ev |-> Append(ev, r.its[1].idx)]
        ELSE filterfalse_next(o, r.its, Append(ev, r.its[1].idx))

\* even_numbers = filterfalse(lambda x: x%2, range(10))
InitFilterfalse ==
    /\ srcs \in {<<s>> : s \in SeqsUpTo({0, 1, 2}, MaxLen) \cup {range(10)}}
    /\ obj = [ob_type |-> "filterfalse"]
    /\ iters = iter(1)
    /\ out = <<>>
    /\ eos = 0
    /\ evals = <<>>

\* list(even_numbers): one pull
FilterfalseNext == Deliver(filterfalse_next(obj, iters, <<>>))

\* the argument tuples of starmap(pow, [(2,5), (3,2), (10,3)])
StarmapArgs == {<<2, 5>>, <<3, 2>>, <<10, 3>>}

StarmapExample == << <<2, 5>>, <<3, 2>>, <<10, 3>> >>

\* pow(x, y) of two non-negative integers
pow(x, y) == x ^ y

\* starmap.__next__: the function applied to the next tuple of arguments
starmap_next(o, its) ==
    LET r == next(its, 1)
    IN  IF r.item = <<>>
        THEN [obj |-> o, its |-> r.its, ret |-> <<>>, ev |-> <<>>]
        ELSE [obj |-> o, its |-> r.its, ret |-> <<pow(r.item[1][1], r.item[1][2])>>,
              ev |-> <<r.its[1].idx>>]

\* powers = starmap(pow, [(2,5), (3,2), (10,3)])
InitStarmap ==
    /\ srcs \in {<<s>> : s \in SeqsUpTo(StarmapArgs, MaxLen)}
    /\ obj = [ob_type |-> "starmap"]
    /\ iters = iter(1)
    /\ out = <<>>
    /\ eos = 0
    /\ evals = <<>>

\* list(powers): one pull
StarmapNext == Deliver(starmap_next(obj, iters))

RepeatMaxTimes == 3   \* most repetitions asked for, besides the notebook's 5

\* repeat.__next__: the element, cnt times
repeat_next(o, its) ==
    IF o.cnt = 0
    THEN [obj |-> o, its |-> its, ret |-> <<>>, ev |-> <<>>]
    ELSE [obj |-> [o EXCEPT !.cnt = @ - 1], its |-> its, ret |-> <<o.element>>,
          ev |-> <<>>]

\* repetitions = repeat(2, 5): there is no input iterable; a negative number
\* of times counts as none
InitRepeat ==
    \E times \in (-1..RepeatMaxTimes) \cup {5} :
        /\ srcs = <<>>
        /\ obj = [ob_type |-> "repeat", element |-> 2, cnt |-> Max(times, 0)]
        /\ iters = iter(0)
        /\ out = <<>>
        /\ eos = 0
        /\ evals = <<>>

\* list(repetitions): one pull
RepeatNext == Deliver(repeat_next(obj, iters))

CwrMaxN == 3    \* largest pool of combinations_with_replacement
CwrMaxR == 3    \* largest r of combinations_with_replacement

\* the rightmost place whose index is not at its maximum n - 1, 0 if none
RECURSIVE cwr_scan(_, _, _)
cwr_scan(indices, n, i) ==
    IF i = 0 THEN 0
    ELSE IF indices[i] # n - 1 THEN i
    ELSE cwr_scan(indices, n, i - 1)

\* combinations_with_replacement.__next__: the first call returns the first
\* element r times; a later call finds the rightmost index not at its maximum,
\* bumps it and sets every index right of it to the same value
cwr_next(o, its) ==
    IF o.stopped = 1
    THEN [obj |-> o, its |-> its, ret |-> <<>>, ev |-> <<>>]
    ELSE IF o.result = 0
    THEN [obj |-> [o EXCEPT !.result = 1], its |-> its,
          ret |-> <<select(o.pool, o.indices, o.r)>>, ev |-> <<>>]
    ELSE LET n == Len(o.pool)
             i == cwr_scan(o.indices, n, o.r)
         IN  IF i = 0
             THEN [obj |-> [o EXCEPT !.stopped = 1], its |-> its, ret |-> <<>>, ev |-> <<>>]
             ELSE LET ind == [j \in 1..o.r |->
                                 IF j < i THEN o.indices[j] ELSE o.indices[i] + 1]
                  IN  [obj |-> [o EXCEPT !.indices = ind], its |-> its,
                       ret |-> <<select(o.pool, ind, o.r)>>, ev |-> <<>>]

\* combinations = combinations_with_replacement([1, 2, 3], 2): the pool is a
\* tuple of the iterable, taken at construction; an empty pool with r > 0
\* builds the object already stopped
InitCwr ==
    \E n \in 0..CwrMaxN, r \in 0..CwrMaxR :
        /\ srcs = <<[i \in 1..n |-> i]>>
        /\ obj = [ob_type |-> "combinations_with_replacement",
                  pool |-> [i \in 1..n |-> i], indices |-> [k \in 1..r |-> 0], r |-> r,
                  result |-> 0, stopped |-> IF n = 0 /\ r > 0 THEN 1 ELSE 0]
        /\ iters = drained(srcs)
        /\ out = <<>>
        /\ eos = 0
        /\ evals = <<>>

\* list(combinations): one pull
CwrNext == Deliver(cwr_next(obj, iters))

CycleMaxLen == 2   \* longest input of cycle
CycleMaxOut == 5   \* elements the consumer takes from a cycle

\* cycle.__next__: the input's elements are given and saved until the input
\* ends, then the saved ones are given over and over; nothing saved, the
\* call signals the end
cycle_next(o, its) ==
    LET r == IF o.it = 1 THEN next(its, 1) ELSE [item |-> <<>>, its |-> its]
    IN  IF r.item # <<>>
        THEN [obj |-> [o EXCEPT !.saved = @ \o r.item], its |-> r.its, ret |-> r.item,
              ev |-> <<>>]
        ELSE IF o.saved = <<>>
        THEN [obj |-> [o EXCEPT !.it = 0], its |-> r.its, ret |-> <<>>, ev |-> <<>>]
        ELSE [obj |-> [o EXCEPT !.it = 0, !.index = (@ + 1) % Len(o.saved)],
              its |-> r.its, ret |-> <<o.saved[o.index + 1]>>, ev |-> <<>>]

\* cycle('ABCD')
InitCycle ==
    \E L \in (0..CycleMaxLen) \cup {4} :
        /\ srcs = <<Prefix(CompressData, L)>>
        /\ obj = [ob_type |-> "cycle", it |-> 1, saved |-> <<>>, index |-> 0]
        /\ iters = iter(1)
        /\ out = <<>>
        /\ eos = 0
        /\ evals = <<>>

\* one pull by a consumer that stops after CycleMaxOut elements
CycleNext == Len(out) < CycleMaxOut /\ Deliver(cycle_next(obj, iters))

\* ---------------------------------------------------------------------------
\* every iterator of the notebook, pulled on after it has signalled its end
\* ---------------------------------------------------------------------------

\* any cell of the notebook that builds an iterator
InitItertools ==
    \/ InitAccumulate
    \/ InitChain
    \/ InitCombinations
    \/ InitCwr
    \/ InitCompress
    \/ InitCycle
    \/ InitDropwhile
    \/ InitIslice
    \/ InitFilterfalse
    \/ InitGroupby
    \/ InitPermutations
    \/ InitProduct
    \/ InitRepeat
    \/ InitStarmap
    \/ InitTakewhile
    \/ InitTee
    \/ InitZipLongest

\* one pull of the iterator the cell built: the __next__ of its type
NextItertools ==
    \/ obj.ob_type = "accumulate" /\ AccumulateNext
    \/ obj.ob_type = "chain" /\ ChainNext
    \/ obj.ob_type = "combinations" /\ CombinationsNext
    \/ obj.ob_type = "combinations_with_replacement" /\ CwrNext
    \/ obj.ob_type = "compress" /\ CompressNext
    \/ obj.ob_type = "cycle" /\ CycleNext
    \/ obj.ob_type = "dropwhile" /\ DropwhileNext
    \/ obj.ob_type = "islice" /\ IsliceNext
    \/ obj.ob_type = "filterfalse" /\ FilterfalseNext
    \/ obj.ob_type = "groupby" /\ GroupbyNext
    \/ obj.ob_type = "groupby" /\ GrouperNext
    \/ obj.ob_type = "permutations" /\ PermutationsNext
    \/ obj.ob_type = "product" /\ ProductNext
    \/ obj.ob_type = "repeat" /\ RepeatNext
    \/ obj.ob_type = "starmap" /\ StarmapNext
    \/ obj.ob_type = "takewhile" /\ TakewhileNext
    \/ obj.ob_type = "tee" /\ TeeNext
    \/ obj.ob_type = "zip_longest" /\ ZipLongestNext

SpecItertools == InitItertools /\ [][NextItertools]_vars

\* the types whose exhausted iterator holds no input any more: the input was
\* read into a pool at construction, or is let go of at the end, or there is
\* none
KeepsNoInput ==
    {"chain", "combinations", "combinations_with_replacement", "cycle", "islice",
     "permutations", "product", "repeat", "zip_longest"}

\* the types whose __next__ begins by asking the input for its next element,
\* exhausted or not
AsksInputAgain == {"accumulate", "dropwhile", "filterfalse", "starmap"}

\* the call asks input i once more and is given nothing
AskedInVain(i) == iters' = [iters EXCEPT ![i].calls = @ + 1]

ExhaustedPull ==
    (obj.ob_type \notin {"tee", "groupby"} /\ eos > 0) =>
        /\ out' = out
        /\ eos' = eos + 1
        /\ obj.ob_type \in KeepsNoInput => iters' = iters /\ obj' = obj
        /\ obj.ob_type = "takewhile" =>
              IF obj.stop = 1 THEN iters' = iters ELSE AskedInVain(1)
        /\ obj.ob_type \in AsksInputAgain => AskedInVain(1)
        /\ obj.ob_type = "compress" =>
              IF iters[1].idx = Len(srcs[1])
              THEN AskedInVain(1)
              ELSE iters' = [iters EXCEPT ![1] = [idx |-> @.idx + 1, calls |-> @.calls + 1],
                                          ![2].calls = @ + 1]

\* a further pull of an exhausted tee clone
ExhaustedTeePull ==
    obj.ob_type = "tee" =>
        \A c \in 1..obj.n :
            (eos[c] > 0 /\ (eos'[c] # eos[c] \/ out'[c] # out[c])) =>
                /\ out' = out
                /\ eos' = [eos EXCEPT ![c] = @ + 1]
                /\ obj' = obj
                /\ AskedInVain(1)

\* a further pull of an exhausted groupby
ExhaustedGroupbyPull ==
    (obj.ob_type = "groupby" /\ eos > 0 /\ (eos' # eos \/ Len(out') # Len(out))) =>
        /\ out' = out
        /\ eos' = eos + 1
        /\ AskedInVain(1)

\* a further pull of a group of a groupby that has signalled its end: only
\* the current group, ended by the end of the input, asks the input again
ExhaustedGroupPull ==
    (obj.ob_type = "groupby" /\ Len(out') = Len(out) /\ eos' = eos) =>
        \A j \in 1..Len(out) :
            (out[j].eos > 0 /\ out'[j] # out[j]) =>
                /\ out'[j] = [out[j] EXCEPT !.eos = @ + 1]
                /\ IF j = obj.currgrouper /\ obj.currvalue = <<>>
                   THEN AskedInVain(1)
                   ELSE iters' = iters

C13_WitnessTakewhile ==
    /\ obj.ob_type = "takewhile"
    /\ srcs = << <<>> >>
    /\ eos = 2
    /\ iters[1].calls = 2

\* chain('abc', [1, 2, 3]) pulled twice after its end: each input was asked
\* once beyond its last element, and not again
C13_WitnessChain ==
    /\ obj.ob_type = "chain"
    /\ srcs = ChainExample
    /\ eos = 2
    /\ Len(out) = 6
    /\ \A i \in 1..2 : iters[i].calls = Len(srcs[i]) + 1

\* both clones of tee(['a', 'b', 'c'], 2) pulled twice after their end
C13_WitnessTee ==
    /\ obj.ob_type = "tee" /\ obj.n = 2
    /\ Len(srcs[1]) = 3
    /\ eos = <<2, 2>>
    /\ iters[1] = [idx |-> 3, calls |-> 7]

====
